---- MODULE Spec2Model ----
(***************************************************************************)
(* The BGE reranker service: the BGEReranker wrapper (load_model, _warmup, *)
(* rerank, get_model_info), the POST /api/rerank handler and the lifespan  *)
(* hook.  Scores are integers standing for the engine's floats, times are  *)
(* integer ticks, an average is the fraction num/den.                      *)
(***************************************************************************)
EXTENDS Integers, Sequences, FiniteSets, TLC

VARIABLES
    is_loaded,              \* BGEReranker.is_loaded
    model,                  \* BGEReranker.model is not None
    total_queries,          \* BGEReranker.total_queries
    total_processing_time,  \* BGEReranker.total_processing_time
    phase,                  \* lifespan: "created", "startup", "serving", "aborted"
    lpc,                    \* position inside load_model
    warm,                   \* warmup rounds completed
    wstate,                 \* warmup: "not_started", "running", "completed", "failed"
    running,                \* what holds the single thread: "none", "lifespan" or a call id
    tasks,                  \* the calls: one record per call id
    nArrived,               \* history: calls issued
    nReached,               \* history: calls that entered the scoring step
    nCompleted,             \* history: rerank calls that returned without raising
    sumDt,                  \* history: sum of processing_time over the calls that computed one
    peak                    \* history: largest number of calls in flight at once

vars == <<is_loaded, model, total_queries, total_processing_time, phase, lpc, warm,
          wstate, running, tasks, nArrived, nReached, nCompleted, sumDt, peak>>

---------------------------------------------------------------------------
(* Bounds of the model *)
MaxDocs == 3
MaxTopK == 4
MaxReqDocs == 2
MaxRequests == 2
MaxDt == 1

(* Program constants *)
WarmupRounds == 5
ConfigBatchSize == 32
DefaultTopK == 10
TopKMin == 1
TopKMax == 100
BatchMin == 1
BatchMax == 128
DocsMin == 1
DocsMax == 100

(* Optional[int]: None is the empty sequence, a value v is <<v>> *)
None == <<>>
Some(v) == <<v>>

Docs == {"a", "b"}
ScoreValues == {-1, 0, 2}
Durations == 0..MaxDt
ReqIds == {"r1", "r2"}

Min(a, b) == IF a <= b THEN a ELSE b

SeqsUpTo(S, n) == UNION {[1..k -> S] : k \in 0..n}

---------------------------------------------------------------------------
(* list.sort(key=lambda x: x[1], reverse=True) *)

Reverse(s) == [i \in 1..Len(s) |-> s[Len(s) + 1 - i]]

RECURSIVE InsertAsc(_, _)
InsertAsc(s, x) ==
    IF s = <<>> THEN <<x>>
    ELSE IF s[Len(s)].score <= x.score THEN Append(s, x)
    ELSE Append(InsertAsc(SubSeq(s, 1, Len(s) - 1), x), s[Len(s)])

RECURSIVE StableSortAsc(_)
StableSortAsc(s) ==
    IF s = <<>> THEN <<>>
    ELSE InsertAsc(StableSortAsc(SubSeq(s, 1, Len(s) - 1)), s[Len(s)])

\* a sort followed by reverse(): ties come out in reverse input order
SortThenReverse(pairs) == Reverse(StableSortAsc(pairs))

\* reverse=True keeps the sort stable: the list is reversed, sorted ascending
\* and reversed again
SortDescending(pairs) == Reverse(StableSortAsc(Reverse(pairs)))

\* zip(documents, scores)
Zip(documents, scores) ==
    [i \in 1..Min(Len(documents), Len(scores)) |->
        [doc |-> documents[i], score |-> scores[i]]]

\* s[:k] for k >= 0
Slice(s, k) == SubSeq(s, 1, Min(k, Len(s)))

RECURSIVE SumSeq(_)
SumSeq(s) == IF s = <<>> THEN 0 ELSE s[Len(s)] + SumSeq(SubSeq(s, 1, Len(s) - 1))

\* a / b as a fraction
Frac(a, b) == [num |-> a, den |-> b]
FracEq(x, y) == x.num * y.den = y.num * x.den

NpMean(scores) == Frac(SumSeq(scores), Len(scores))
NpMax(scores) == CHOOSE m \in {scores[i] : i \in 1..Len(scores)} :
                    \A i \in 1..Len(scores) : scores[i] <= m
NpMin(scores) == CHOOSE m \in {scores[i] : i \in 1..Len(scores)} :
                    \A i \in 1..Len(scores) : m <= scores[i]

\* the scores the metrics are computed from, were they taken from the
\* returned top_k only
MetricScoresReturned(scores, ranked_scores) == ranked_scores
\* the metrics read the engine's full score vector
MetricScores(scores, ranked_scores) == scores

\* batch_size after the defaulting of lines 107-108, as <<value>>
EffectiveBatch(batch_size) ==
    IF batch_size = None THEN Some(ConfigBatchSize) ELSE batch_size

EffectiveTopK(top_k, documents) ==
    IF top_k = None THEN Len(documents) ELSE top_k[1]

ZeroFrac == Frac(0, 1)
EmptyMetrics == [processing_time |-> 0, documents_processed |-> 0]

RerankMetrics(documents, scores, ranked_scores, batch_size, dt) ==
    LET ms == MetricScores(scores, ranked_scores) IN
    [processing_time |-> dt,
     documents_processed |-> Len(documents),
     batch_size |-> EffectiveBatch(batch_size),
     average_score |-> IF Len(ms) > 0 THEN NpMean(ms) ELSE ZeroFrac,
     max_score |-> IF Len(ms) > 0 THEN NpMax(ms) ELSE 0,
     min_score |-> IF Len(ms) > 0 THEN NpMin(ms) ELSE 0]

RankedPairs(documents, scores, top_k) ==
    Slice(SortDescending(Zip(documents, scores)), EffectiveTopK(top_k, documents))

RankedDocuments(documents, scores, top_k) ==
    LET p == RankedPairs(documents, scores, top_k) IN [i \in 1..Len(p) |-> p[i].doc]

\* float(score) widens the engine's float32 exactly
RankedScores(documents, scores, top_k) ==
    LET p == RankedPairs(documents, scores, top_k) IN [i \in 1..Len(p) |-> p[i].score]

\* get_model_info()["average_processing_time"]
AverageProcessingTime ==
    IF total_queries > 0 THEN Frac(total_processing_time, total_queries) ELSE ZeroFrac

---------------------------------------------------------------------------
(* The request schema *)

OptInRange(v, lo, hi) == IF v = None THEN TRUE ELSE lo <= v[1] /\ v[1] <= hi

\* a body field: given or omitted, and when given null (None) or a value
Omitted == [given |-> FALSE, v |-> None]
Given(v) == [given |-> TRUE, v |-> v]
FieldValue(f, default) == IF f.given THEN f.v ELSE default

\* RerankRequest after validation, from a JSON body
ParseRequest(body) ==
    [documents |-> body.documents,
     top_k |-> FieldValue(body.top_k, Some(DefaultTopK)),
     batch_size |-> FieldValue(body.batch_size, None)]

ValidRequest(req) ==
    /\ DocsMin <= Len(req.documents) /\ Len(req.documents) <= DocsMax
    /\ OptInRange(req.top_k, TopKMin, TopKMax)
    /\ OptInRange(req.batch_size, BatchMin, BatchMax)

ReqDocuments == {[i \in 1..n |-> IF i % 2 = 1 THEN "a" ELSE "b"] : n \in 0..MaxReqDocs}
BodyTopK == {Omitted, Given(None), Given(Some(1)), Given(Some(0))}
BodyBatch == {Omitted, Given(None), Given(Some(2))}
Bodies == [documents : ReqDocuments, top_k : BodyTopK, batch_size : BodyBatch]

---------------------------------------------------------------------------
(* Calls *)

\* no metrics dictionary was built
NoMetrics == [processing_time |-> -1, documents_processed |-> -1]

IdleTask ==
    [pc |-> "idle", kind |-> "none", documents |-> <<>>, top_k |-> None,
     batch_size |-> None, tmp |-> 0, tq0 |-> 0, tp0 |-> 0, scores |-> <<>>,
     dt |-> 0, outcome |-> "none", status |-> 0, engine_called |-> FALSE,
     ranked_documents |-> <<>>, ranked_scores |-> <<>>, metrics |-> NoMetrics]

PendingTask(kind, documents, top_k, batch_size) ==
    [IdleTask EXCEPT !.pc = "pending", !.kind = kind, !.documents = documents,
                     !.top_k = top_k, !.batch_size = batch_size]

\* an HTTP response keeps its status and outcome; the handler's locals are gone
Response(t, status, outcome) ==
    [IdleTask EXCEPT !.pc = "done", !.kind = "http", !.status = status,
                     !.outcome = outcome, !.engine_called = t.engine_called]

\* what the caller of rerank holds when the call has returned or raised
Returned(t, outcome) ==
    IF t.kind = "http"
    THEN Response(t, IF outcome = "ok" THEN 200 ELSE 500, outcome)
    ELSE [t EXCEPT !.pc = "done", !.outcome = outcome]

InCall(t) == t.pc \in {"tq_store", "predict", "tp_store"}

\* the handler is one coroutine without an await, were it run on a thread
\* pool it could be preempted anywhere
SuspendsAnywhere(pc) == pc \in {"tq_store", "predict", "tp_store"}
\* rerank_documents awaits nothing and rerank is synchronous: once the event
\* loop has entered the handler, nothing else runs until it returns
Suspends(pc) == FALSE

Holder(r, pc) == IF pc = "done" \/ Suspends(pc) THEN "none" ELSE r

MayStep(r) == running = r \/ (running = "none" /\ InCall(tasks[r]))

InFlight == {r \in ReqIds : tasks[r].pc \notin {"idle", "done"}}

---------------------------------------------------------------------------
(* lifespan and load_model *)

Init ==
    /\ is_loaded = FALSE
    /\ model = FALSE
    /\ total_queries = 0
    /\ total_processing_time = 0
    /\ phase = "created"
    /\ lpc = "idle"
    /\ warm = 0
    /\ wstate = "not_started"
    /\ running = "none"
    /\ tasks = [r \in ReqIds |-> IdleTask]
    /\ nArrived = 0
    /\ nReached = 0
    /\ nCompleted = 0
    /\ sumDt = 0
    /\ peak = 0

\* lifespan enters and calls reranker_model.load_model()
LifespanStart ==
    /\ phase = "created"
    /\ running = "none"
    /\ phase' = "startup"
    /\ lpc' = "build"
    /\ running' = "lifespan"
    /\ UNCHANGED <<is_loaded, model, total_queries, total_processing_time, warm, wstate,
                   tasks, nArrived, nReached, nCompleted, sumDt, peak>>

\* CrossEncoder(...) and the FP16 block both succeed
LoadBuildOk ==
    /\ lpc = "build"
    /\ model' = TRUE
    /\ lpc' = "set_loaded"
    /\ UNCHANGED <<is_loaded, total_queries, total_processing_time, phase, warm, wstate,
                   running, tasks, nArrived, nReached, nCompleted, sumDt, peak>>

\* CrossEncoder(...) raises (assigned = FALSE) or half() raises (assigned = TRUE):
\* the except branch clears is_loaded and returns False
LoadBuildRaise ==
    /\ lpc = "build"
    /\ \E assigned \in BOOLEAN : model' = assigned
    /\ is_loaded' = FALSE
    /\ lpc' = "returned_false"
    /\ UNCHANGED <<total_queries, total_processing_time, phase, warm, wstate,
                   running, tasks, nArrived, nReached, nCompleted, sumDt, peak>>

\* self.is_loaded = True, then the success log lines
LoadSetLoaded ==
    /\ lpc = "set_loaded"
    /\ is_loaded' = TRUE
    /\ lpc' = "warmup"
    /\ UNCHANGED <<model, total_queries, total_processing_time, phase, warm, wstate,
                   running, tasks, nArrived, nReached, nCompleted, sumDt, peak>>

\* self._warmup() is entered
WarmupBegin ==
    /\ lpc = "warmup"
    /\ wstate = "not_started"
    /\ wstate' = "running"
    /\ UNCHANGED <<is_loaded, model, total_queries, total_processing_time, phase, lpc, warm,
                   running, tasks, nArrived, nReached, nCompleted, sumDt, peak>>

\* one warmup predict succeeds; after the last one _warmup and load_model return
\* (the loop index dies with the loop)
WarmupRound ==
    /\ lpc = "warmup"
    /\ wstate = "running"
    /\ warm < WarmupRounds
    /\ IF warm + 1 = WarmupRounds
       THEN wstate' = "completed" /\ lpc' = "returned_true" /\ warm' = 0
       ELSE warm' = warm + 1 /\ UNCHANGED <<wstate, lpc>>
    /\ UNCHANGED <<is_loaded, model, total_queries, total_processing_time, phase,
                   running, tasks, nArrived, nReached, nCompleted, sumDt, peak>>

\* a warmup failure that escaped _warmup into load_model's except branch
WarmupRaiseFailsLoad ==
    /\ lpc = "warmup"
    /\ wstate = "running"
    /\ wstate' = "failed"
    /\ warm' = 0
    /\ is_loaded' = FALSE
    /\ lpc' = "returned_false"
    /\ UNCHANGED <<model, total_queries, total_processing_time, phase,
                   running, tasks, nArrived, nReached, nCompleted, sumDt, peak>>

\* a warmup predict raises: _warmup logs a warning and returns, load_model returns True
WarmupRaise ==
    /\ lpc = "warmup"
    /\ wstate = "running"
    /\ wstate' = "failed"
    /\ warm' = 0
    /\ lpc' = "returned_true"
    /\ UNCHANGED <<is_loaded, model, total_queries, total_processing_time, phase,
                   running, tasks, nArrived, nReached, nCompleted, sumDt, peak>>

\* load_model returned True: lifespan yields and the application runs
LifespanServe ==
    /\ phase = "startup"
    /\ lpc = "returned_true"
    /\ phase' = "serving"
    /\ running' = "none"
    /\ UNCHANGED <<is_loaded, model, total_queries, total_processing_time, lpc, warm, wstate,
                   tasks, nArrived, nReached, nCompleted, sumDt, peak>>

\* a lifespan that went on to yield whatever load_model returned
LifespanIgnoresFailure ==
    /\ phase = "startup"
    /\ lpc = "returned_false"
    /\ phase' = "serving"
    /\ running' = "none"
    /\ UNCHANGED <<is_loaded, model, total_queries, total_processing_time, lpc, warm, wstate,
                   tasks, nArrived, nReached, nCompleted, sumDt, peak>>

\* load_model returned False: lifespan raises RuntimeError and nothing is served
LifespanAbort ==
    /\ phase = "startup"
    /\ lpc = "returned_false"
    /\ phase' = "aborted"
    /\ running' = "none"
    /\ UNCHANGED <<is_loaded, model, total_queries, total_processing_time, lpc, warm, wstate,
                   tasks, nArrived, nReached, nCompleted, sumDt, peak>>

---------------------------------------------------------------------------
(* POST /api/rerank and BGEReranker.rerank *)

\* a validated request reaches the application while it is running
Arrive(r, body) ==
    LET req == ParseRequest(body)
        nt == [tasks EXCEPT ![r] = PendingTask("http", req.documents, req.top_k,
                                               req.batch_size)]
        n == Cardinality({q \in ReqIds : nt[q].pc \notin {"idle", "done"}})
    IN
    /\ phase = "serving"
    /\ tasks[r].pc \in {"idle", "done"}
    /\ nArrived < MaxRequests
    /\ ValidRequest(req)
    /\ tasks' = nt
    /\ nArrived' = nArrived + 1
    /\ peak' = IF n > peak THEN n ELSE peak
    /\ UNCHANGED <<is_loaded, model, total_queries, total_processing_time, phase, lpc, warm,
                   wstate, running, nReached, nCompleted, sumDt>>

\* if request.top_k > len(request.documents): request.top_k = len(...)
ClampTopK(top_k, documents) ==
    IF top_k[1] > Len(documents) THEN Some(Len(documents)) ELSE top_k

\* what rerank returns for an empty documents list
EmptyReturn(t) ==
    [Returned(t, "ok") EXCEPT !.ranked_documents = <<>>, !.ranked_scores = <<>>,
                              !.metrics = EmptyMetrics]

\* rerank without its guard on is_loaded and model
RerankEntryUnguarded(t) ==
    IF t.documents = <<>> THEN EmptyReturn(t)
    ELSE [t EXCEPT !.pc = "tq_store", !.tmp = total_queries]

\* rerank without its early return on an empty list
RerankEntryNoEarlyReturn(t) ==
    IF ~is_loaded \/ ~model THEN Returned(t, "not_loaded")
    ELSE [t EXCEPT !.pc = "tq_store", !.tmp = total_queries]

\* rerank up to the read of total_queries in "self.total_queries += 1"
RerankEntry(t) ==
    IF ~is_loaded \/ ~model THEN Returned(t, "not_loaded")
    ELSE IF t.documents = <<>> THEN EmptyReturn(t)
    ELSE [t EXCEPT !.pc = "tq_store", !.tmp = total_queries]

\* rerank_documents up to its call of reranker.rerank
HandlerEntry(t) ==
    IF ~is_loaded THEN Response(t, 503, "http_503")
    ELSE IF t.top_k = None THEN Response(t, 500, "type_error")
    ELSE RerankEntry([t EXCEPT !.top_k = ClampTopK(t.top_k, t.documents)])

Enter(r) ==
    LET t0 == [tasks[r] EXCEPT !.tq0 = total_queries, !.tp0 = total_processing_time]
        nt == IF t0.kind = "http" THEN HandlerEntry(t0) ELSE RerankEntry(t0)
    IN
    /\ tasks[r].pc = "pending"
    /\ running = "none"
    /\ tasks[r].kind = "http" => phase = "serving"
    /\ tasks' = [tasks EXCEPT ![r] = nt]
    /\ running' = Holder(r, nt.pc)
    /\ nCompleted' = IF nt.pc = "done" /\ nt.outcome = "ok"
                     THEN nCompleted + 1 ELSE nCompleted
    /\ UNCHANGED <<is_loaded, model, total_queries, total_processing_time, phase, lpc, warm,
                   wstate, nArrived, nReached, sumDt, peak>>

\* the write of "self.total_queries += 1"; the try block is entered
TqStore(r) ==
    /\ tasks[r].pc = "tq_store"
    /\ MayStep(r)
    /\ total_queries' = tasks[r].tmp + 1
    /\ nReached' = nReached + 1
    /\ tasks' = [tasks EXCEPT ![r].pc = "predict"]
    /\ running' = Holder(r, "predict")
    /\ UNCHANGED <<is_loaded, model, total_processing_time, phase, lpc, warm, wstate,
                   nArrived, nCompleted, sumDt, peak>>

\* predict returns one score per pair; sort, slices and processing_time follow,
\* up to the read of total_processing_time in "+= processing_time"
PredictOk(r) ==
    LET t == tasks[r] IN
    /\ t.pc = "predict"
    /\ MayStep(r)
    /\ \E scores \in [1..Len(t.documents) -> ScoreValues], dt \in Durations :
          tasks' = [tasks EXCEPT ![r] =
                      [t EXCEPT !.pc = "tp_store", !.engine_called = TRUE,
                                !.scores = scores, !.dt = dt,
                                !.ranked_documents =
                                    RankedDocuments(t.documents, scores, t.top_k),
                                !.ranked_scores =
                                    RankedScores(t.documents, scores, t.top_k),
                                !.tmp = total_processing_time]]
    /\ running' = Holder(r, "tp_store")
    /\ UNCHANGED <<is_loaded, model, total_queries, total_processing_time, phase, lpc, warm,
                   wstate, nArrived, nReached, nCompleted, sumDt, peak>>

\* predict raises: logged and re-raised; the handler answers 500
PredictRaise(r) ==
    /\ tasks[r].pc = "predict"
    /\ MayStep(r)
    /\ tasks' = [tasks EXCEPT ![r] =
                    Returned([tasks[r] EXCEPT !.engine_called = TRUE], "predict_raised")]
    /\ running' = Holder(r, "done")
    /\ UNCHANGED <<is_loaded, model, total_queries, total_processing_time, phase, lpc, warm,
                   wstate, nArrived, nReached, nCompleted, sumDt, peak>>

\* the write of "self.total_processing_time += processing_time", the metrics
\* and the return; the handler answers 200
TpStore(r) ==
    LET t == tasks[r] IN
    /\ t.pc = "tp_store"
    /\ MayStep(r)
    /\ total_processing_time' = t.tmp + t.dt
    /\ sumDt' = sumDt + t.dt
    /\ nCompleted' = nCompleted + 1
    /\ tasks' = [tasks EXCEPT ![r] =
                    Returned([t EXCEPT !.metrics =
                                 RerankMetrics(t.documents, t.scores, t.ranked_scores,
                                               t.batch_size, t.dt)], "ok")]
    /\ running' = Holder(r, "done")
    /\ UNCHANGED <<is_loaded, model, total_queries, phase, lpc, warm, wstate,
                   nArrived, nReached, peak>>

---------------------------------------------------------------------------
(* The service: startup, then requests *)

Next ==
    \/ LifespanStart
    \/ LoadBuildOk
    \/ LoadBuildRaise
    \/ LoadSetLoaded
    \/ WarmupBegin
    \/ WarmupRound
    \/ WarmupRaise
    \/ LifespanServe
    \/ LifespanAbort
    \/ \E r \in ReqIds, body \in Bodies : Arrive(r, body)
    \/ \E r \in ReqIds : Enter(r)
    \/ \E r \in ReqIds : TqStore(r)
    \/ \E r \in ReqIds : PredictOk(r)
    \/ \E r \in ReqIds : PredictRaise(r)
    \/ \E r \in ReqIds : TpStore(r)

Spec == Init /\ [][Next]_vars

---------------------------------------------------------------------------
(* One direct call of rerank on a reranker in a state the service reaches *)

RerankerStates ==
    {[is_loaded |-> FALSE, model |-> FALSE, phase |-> "created", lpc |-> "idle",
      warm |-> 0, wstate |-> "not_started"],
     [is_loaded |-> FALSE, model |-> FALSE, phase |-> "aborted", lpc |-> "returned_false",
      warm |-> 0, wstate |-> "not_started"],
     [is_loaded |-> FALSE, model |-> TRUE, phase |-> "aborted", lpc |-> "returned_false",
      warm |-> 0, wstate |-> "not_started"],
     [is_loaded |-> TRUE, model |-> TRUE, phase |-> "serving", lpc |-> "returned_true",
      warm |-> 0, wstate |-> "completed"],
     [is_loaded |-> TRUE, model |-> TRUE, phase |-> "serving", lpc |-> "returned_true",
      warm |-> 0, wstate |-> "failed"]}

\* total_queries and total_processing_time left by earlier calls
PriorCounters == {<<0, 0>>, <<2, 1>>}

DirectTopK == {None} \cup {Some(k) : k \in 1..MaxTopK}
DirectBatch == {None, Some(2)}

InitCall ==
    /\ \E s \in RerankerStates, c \in PriorCounters :
          /\ ~s.is_loaded => c = <<0, 0>>
          /\ is_loaded = s.is_loaded
          /\ model = s.model
          /\ phase = s.phase
          /\ lpc = s.lpc
          /\ warm = s.warm
          /\ wstate = s.wstate
          /\ total_queries = c[1]
          /\ total_processing_time = c[2]
          /\ nReached = c[1]
          /\ nCompleted = c[1]
          /\ sumDt = c[2]
    /\ running = "none"
    /\ \E documents \in SeqsUpTo(Docs, MaxDocs), top_k \in DirectTopK,
          batch_size \in DirectBatch :
          tasks = [r \in ReqIds |->
                      IF r = "r1" THEN PendingTask("direct", documents, top_k, batch_size)
                      ELSE IdleTask]
    /\ nArrived = 1
    /\ peak = 1

NextCall ==
    \/ \E r \in ReqIds : Enter(r)
    \/ \E r \in ReqIds : TqStore(r)
    \/ \E r \in ReqIds : PredictOk(r)
    \/ \E r \in ReqIds : PredictRaise(r)
    \/ \E r \in ReqIds : TpStore(r)

SpecCall == InitCall /\ [][NextCall]_vars

---------------------------------------------------------------------------
(* Properties *)

NoneInCall == \A r \in ReqIds : ~InCall(tasks[r])

\* the call id of the direct call of SpecCall
Call == tasks["r1"]
CallReturned == Call.pc = "done" /\ Call.kind = "direct"

\* 1 + the number of inputs that a stable descending sort puts before input i
Rank(scores, i) ==
    1 + Cardinality({j \in 1..Len(scores) :
                        scores[j] > scores[i] \/ (scores[j] = scores[i] /\ j < i)})

\* C1: with the model loaded, a rerank of a non-empty list whose engine call
\* returns raises nothing and returns the first min(top_k, len) pairs of the
\* stable descending sort of (documents[i], score[i]): equal lengths,
\* non-increasing scores, every document with the score of its own input
\* position, ties in input order.
C1_RankedPrefix ==
    (CallReturned /\ is_loaded /\ model /\ Call.documents # <<>>
        /\ Call.outcome # "predict_raised") =>
      LET n == Len(Call.documents)
          k == Min(EffectiveTopK(Call.top_k, Call.documents), n)
      IN
      /\ Call.outcome = "ok"
      /\ Len(Call.ranked_documents) = k
      /\ Len(Call.ranked_scores) = k
      /\ \A i \in 1..(k - 1) : Call.ranked_scores[i] >= Call.ranked_scores[i + 1]
      /\ \A i \in 1..n :
            Rank(Call.scores, i) <= k =>
              /\ Call.ranked_documents[Rank(Call.scores, i)] = Call.documents[i]
              /\ Call.ranked_scores[Rank(Call.scores, i)] = Call.scores[i]

\* a returned call with two tied, different documents both returned, and a
\* top_k that cuts the list
C1_Witness ==
    /\ CallReturned /\ Call.outcome = "ok"
    /\ Call.top_k # None
    /\ Len(Call.ranked_documents) = 2
    /\ Len(Call.documents) = 3
    /\ Call.ranked_scores[1] = Call.ranked_scores[2]
    /\ Call.ranked_documents[1] # Call.ranked_documents[2]
    /\ Call.scores[1] < Call.scores[2]

\* C2: the metrics of a successful call on a non-empty list are the mean,
\* maximum and minimum of the scores of all input documents, whatever top_k
\* is; documents_processed is len(documents); batch_size is the request's
\* batch size, or the configured default when it is absent.
C2_MetricsOverAll ==
    (CallReturned /\ Call.outcome = "ok" /\ Call.documents # <<>>) =>
      LET n == Len(Call.documents)
          m == Call.metrics
      IN
      /\ Len(Call.scores) = n
      /\ m.average_score.den # 0
      /\ FracEq(m.average_score, Frac(SumSeq(Call.scores), n))
      /\ \E i \in 1..n : m.max_score = Call.scores[i]
      /\ \A i \in 1..n : m.max_score >= Call.scores[i]
      /\ \E i \in 1..n : m.min_score = Call.scores[i]
      /\ \A i \in 1..n : m.min_score <= Call.scores[i]
      /\ m.documents_processed = n
      /\ m.batch_size = IF Call.batch_size = None THEN Some(ConfigBatchSize)
                        ELSE Call.batch_size

\* top_k = 1 of three documents whose lowest score is not returned, with the
\* default batch size
C2_Witness ==
    /\ CallReturned /\ Call.outcome = "ok"
    /\ Call.top_k = Some(1)
    /\ Len(Call.documents) = 3
    /\ Call.metrics.min_score < Call.ranked_scores[1]
    /\ Call.metrics.max_score = Call.ranked_scores[1]
    /\ ~FracEq(Call.metrics.average_score, Frac(Call.ranked_scores[1], 1))
    /\ Call.batch_size = None

\* C3: rerank on a reranker that is not loaded raises the model-not-loaded
\* error, whatever the arguments, without calling the engine and without
\* changing total_queries or total_processing_time.
C3_NotLoadedRaises ==
    (CallReturned /\ (~is_loaded \/ ~model)) =>
      /\ Call.outcome = "not_loaded"
      /\ ~Call.engine_called
      /\ total_queries = Call.tq0
      /\ total_processing_time = Call.tp0

\* the call on an empty list, the model object built but the load failed
C3_Witness ==
    /\ CallReturned
    /\ ~is_loaded /\ model
    /\ Call.documents = <<>>
    /\ Call.outcome = "not_loaded"

\* C4: whenever no call is in progress, total_queries is the number of rerank
\* calls that completed successfully, and average_processing_time is the
\* cumulative time divided by that number (0 when there was none).
C4_CountsSuccessful ==
    NoneInCall =>
      /\ total_queries = nCompleted
      /\ IF nCompleted = 0 THEN AverageProcessingTime = ZeroFrac
         ELSE /\ AverageProcessingTime.den # 0
              /\ FracEq(AverageProcessingTime, Frac(total_processing_time, nCompleted))

\* C5: a call whose predict raised leaves total_queries and
\* total_processing_time as they were before the call.
C5_FailedCallNotCounted ==
    (CallReturned /\ Call.outcome = "predict_raised") =>
      /\ total_queries = Call.tq0
      /\ total_processing_time = Call.tp0

\* C6: whenever no request is inside rerank, total_queries has grown by the
\* number of calls that entered the scoring step and total_processing_time by
\* the sum of the processing times those calls measured: no update is lost.
C6_NoLostUpdate ==
    NoneInCall =>
      /\ total_queries = nReached
      /\ total_processing_time = sumDt

\* two requests were in flight together, both went through scoring, and all
\* have completed
C6_Witness ==
    /\ peak >= 2
    /\ nReached >= 2
    /\ sumDt >= 1
    /\ \A r \in ReqIds : tasks[r].pc = "done"

WarmupEnded == wstate \in {"completed", "failed"}

\* C7 as stated: is_loaded is never true while warmup has not started or is
\* still running.
C7_LoadedOnlyAfterWarmup == is_loaded => WarmupEnded

\* C7 amended: is_loaded becomes true once the model is built, before warmup
\* starts, and stays true while it runs; load_model returns True, and the
\* service serves, only after warmup has ended; a warmup failure leaves
\* is_loaded true and load_model returning True.
C7_LoadedBeforeWarmup ==
    /\ lpc = "warmup" => (is_loaded /\ model)
    /\ is_loaded => lpc \in {"warmup", "returned_true"}
    /\ lpc = "returned_true" => (is_loaded /\ WarmupEnded)
    /\ phase = "serving" => (lpc = "returned_true" /\ WarmupEnded)
    /\ wstate = "failed" => (is_loaded /\ lpc = "returned_true")
    /\ lpc = "returned_false" => wstate = "not_started"

\* warmup failed, and the service is serving with the model loaded
C7_Witness ==
    /\ wstate = "failed"
    /\ is_loaded
    /\ phase = "serving"

C8_Startup ==
    /\ (nArrived > 0 \/ \E r \in ReqIds : tasks[r].pc # "idle") =>
          (phase = "serving" /\ lpc = "returned_true" /\ is_loaded)
    /\ phase = "serving" => (lpc = "returned_true" /\ is_loaded)
    /\ lpc = "returned_false" =>
          (phase \in {"startup", "aborted"} /\ ~is_loaded /\ nArrived = 0)
    /\ \A r \in ReqIds :
          tasks[r].status = 503 =>
            (tasks[r].outcome = "http_503" /\ ~tasks[r].engine_called)

C9_EmptyIsNoOp ==
    (CallReturned /\ is_loaded /\ model /\ Call.documents = <<>>) =>
      /\ Call.outcome = "ok"
      /\ Call.ranked_documents = <<>>
      /\ Call.ranked_scores = <<>>
      /\ Call.metrics.documents_processed = 0
      /\ Call.metrics.processing_time = 0
      /\ ~Call.engine_called
      /\ total_queries = Call.tq0
      /\ total_processing_time = Call.tp0

\* the empty call on a loaded reranker that had served two queries before
C9_Witness ==
    /\ CallReturned /\ is_loaded /\ model
    /\ Call.documents = <<>>
    /\ Call.outcome = "ok"
    /\ total_queries = 2

\* C10: every schema-valid request whose engine call does not fail is
\* answered 200 (every request that arrives is schema-valid).
C10_ValidRequestSucceeds ==
    \A r \in ReqIds :
        (tasks[r].pc = "done" /\ tasks[r].kind = "http"
            /\ tasks[r].outcome # "predict_raised") => tasks[r].status = 200

\* every state of the service in which nothing runs is a reranker state that
\* InitCall draws, and an unloaded reranker has counted nothing
CallStatesCovered ==
    /\ (running = "none" /\ phase # "startup") =>
          [is_loaded |-> is_loaded, model |-> model, phase |-> phase, lpc |-> lpc,
           warm |-> warm, wstate |-> wstate] \in RerankerStates
    /\ ~is_loaded => (total_queries = 0 /\ total_processing_time = 0)
====
